---- MODULE Spec2Model ----
(***************************************************************************)
(* Lineage graph store and temporal traversal of                           *)
(* lens.lineage.repository.LineageRepository.                              *)
(*                                                                         *)
(* Optional values (Python None / SQL NULL) are sequences of length at     *)
(* most one: <<>> is None, <<v>> is the value v.  Timestamps are naturals. *)
(* Lists returned to the caller are sequences; a SELECT without ORDER BY    *)
(* returns its rows in any order (Orderings).                              *)
(*                                                                         *)
(* Spec and FairSpec run traversals on a family of fixed stores.           *)
(* WriteSpec is one client calling create_edge and invalidate_edge on a    *)
(* store that starts empty, ReadSpec adds its traversals between the       *)
(* writes, RaceSpec is two sessions calling create_edge concurrently.      *)
(***************************************************************************)
EXTENDS Integers, Sequences, FiniteSets, Bags, TLC

VARIABLES
  nodes,        \* table lineage_nodes: set of node rows
  edges,        \* table lineage_edges: set of edge rows
  clock,        \* value datetime.utcnow() returns
  pc,           \* position of the running _traverse_graph call
  req,          \* arguments of the outermost _traverse_graph call
  cur,          \* direction of the single-direction invocation in progress
  timestamp,    \* local `timestamp` of the invocation in progress
  working,      \* recursive CTE: working table (bag of rows)
  cte,          \* recursive CTE: rows accumulated by UNION ALL (bag of rows)
  edges_data,   \* local `edges_data` (list of rows)
  found,        \* local `nodes` (list of node rows)
  upstream,     \* local `upstream` of the both branch
  downstream,   \* local `downstream` of the both branch
  response,     \* what the outermost call returned or raised
  reads,        \* number of statements the call has executed on the session
  sessions,     \* per writing session: the create_edge / invalidate_edge in progress
  previous,     \* history: the previous traversal's request and result ids
  calls,        \* per session: the node or run call in progress, or its outcome
  runs,         \* table lineage_runs: set of run rows
  stores        \* history: the committed store states since the running call began

vars == <<nodes, edges, clock, pc, req, cur, timestamp, working, cte,
          edges_data, found, upstream, downstream, response, reads,
          sessions, previous, calls, runs, stores>>

\* what a traversal leaves alone
writers == <<sessions, previous, calls, runs>>

-----------------------------------------------------------------------------
(* Bounds of the model *)

MaxEdges == 3
MaxDepthArg == 2
LevelCap == 12

(* Program constants *)

DepthCeiling == 10

-----------------------------------------------------------------------------
(* Values *)

None == <<>>
Some(v) == <<v>>

NodeIds == {"A", "B", "C", "D"}
MissingId == "Z"

Edge(i, s, t, ty, vf, vt) ==
  [id |-> i, source_id |-> s, target_id |-> t, edge_type |-> ty,
   valid_from |-> vf, valid_to |-> vt]

CandidateEdges ==
  { Edge(1, "A", "B", "read", 1, None),
    Edge(2, "B", "C", "read", 1, None),
    Edge(3, "C", "D", "read", 1, None),
    Edge(4, "C", "A", "write", 1, None),
    Edge(5, "B", "B", "read", 1, Some(2)),
    Edge(6, "A", "C", "read", 3, None) }

-----------------------------------------------------------------------------
(* Generic helpers *)

\* the lists a result without ORDER BY may be fetched as: the rows of S, each
\* once, in every order
RECURSIVE Orderings(_)
Orderings(S) ==
  IF S = {} THEN {<<>>}
  ELSE UNION {{<<x>> \o q : q \in Orderings(S \ {x})} : x \in S}

RECURSIVE SumOver(_, _)
SumOver(S, f) ==
  IF S = {} THEN 0
  ELSE LET x == CHOOSE y \in S : TRUE IN f[x] + SumOver(S \ {x}, f)

Ids(q) == {q[i].id : i \in 1..Len(q)}

\* {x.id: x for x in q}.values(): one entry per id, placed where the id first
\* occurs, holding the last value given for it
DictById(q) ==
  LET firsts == {i \in 1..Len(q) : \A j \in 1..(i - 1) : q[j].id # q[i].id}
      last(i) == CHOOSE j \in 1..Len(q) :
                   /\ q[j].id = q[i].id
                   /\ \A k \in (j + 1)..Len(q) : q[k].id # q[i].id
      RECURSIVE Build(_)
      Build(i) == IF i > Len(q) THEN <<>>
                  ELSE IF i \in firsts THEN <<q[last(i)]>> \o Build(i + 1)
                  ELSE Build(i + 1)
  IN Build(1)

-----------------------------------------------------------------------------
(* schemas.py *)

\* LineageQueryParams(direction=..., depth=...): Field constraints
DirectionPattern(direction) == direction \in {"upstream", "downstream", "both"}

DepthField(depth) == depth >= 1 /\ depth <= DepthCeiling

LineageQueryParams(direction, depth) ==
  DirectionPattern(direction) /\ DepthField(depth)

LineageGraphNode(node) == [id |-> node.id, depth |-> 0]

LineageGraphEdge(row) ==
  [id |-> row.edge_id, source_id |-> row.source_id,
   target_id |-> row.target_id, edge_type |-> row.edge_type]

LineageGraphResponse(ns, es, nc, ec) ==
  [status |-> "ok", nodes |-> ns, edges |-> es, node_count |-> nc, edge_count |-> ec]

Raised(what) ==
  [status |-> what, nodes |-> <<>>, edges |-> <<>>, node_count |-> 0, edge_count |-> 0]

NoResponse == Raised("none")

-----------------------------------------------------------------------------
(* _traverse_graph: the statements it builds *)

\* mutant: as_of ignored
TimestampNow(as_of, now) == now

\* timestamp = as_of or datetime.utcnow()
Timestamp(as_of, now) == IF as_of # None THEN as_of[1] ELSE now

\* mutant: the interval open at valid_from
TemporalFilterLate(e, ts) ==
  /\ e.valid_from < ts
  /\ (e.valid_to = None \/ e.valid_to[1] > ts)

\* mutant: the interval closed at valid_to
TemporalFilterClosed(e, ts) ==
  /\ e.valid_from <= ts
  /\ (e.valid_to = None \/ e.valid_to[1] >= ts)

\* valid_from <= timestamp AND (valid_to IS NULL OR valid_to > timestamp)
TemporalFilter(e, ts) ==
  /\ e.valid_from <= ts
  /\ (e.valid_to = None \/ e.valid_to[1] > ts)

\* mutant: edge_type_filter built whenever edge_types is given, empty or not
EdgeTypeFilterGiven(e, edge_types) ==
  IF edge_types # None
  THEN e.edge_type \in edge_types[1]
  ELSE TRUE

\* edge_type_filter: empty unless edge_types is a non-empty list
EdgeTypeFilter(e, edge_types) ==
  IF edge_types # None /\ edge_types[1] # {}
  THEN e.edge_type \in edge_types[1]
  ELSE TRUE

\* mutant: both directions joined on source_id
JoinColumnSource(e, direction) == e.source_id

\* the column an edge is joined on, and the column labelled node_id
JoinColumn(e, direction) ==
  IF direction = "upstream" THEN e.target_id ELSE e.source_id

NodeIdColumn(e, direction) ==
  IF direction = "upstream" THEN e.source_id ELSE e.target_id

CteRow(e, direction, d) ==
  [node_id |-> NodeIdColumn(e, direction), edge_id |-> e.id,
   source_id |-> e.source_id, target_id |-> e.target_id,
   edge_type |-> e.edge_type, depth |-> d]

\* WHERE clause of cte_base
BaseWhere(e, direction, node_id, ts, edge_types) ==
  /\ JoinColumn(e, direction) = node_id
  /\ TemporalFilter(e, ts)
  /\ EdgeTypeFilter(e, edge_types)

\* mutant: one level too many
RecursiveWhereInclusive(e, r, direction, depth, ts, edge_types) ==
  /\ JoinColumn(e, direction) = r.node_id
  /\ r.depth <= depth
  /\ TemporalFilter(e, ts)
  /\ EdgeTypeFilter(e, edge_types)

\* mutant: no depth condition
RecursiveWhereUnbounded(e, r, direction, depth, ts, edge_types) ==
  /\ JoinColumn(e, direction) = r.node_id
  /\ TemporalFilter(e, ts)
  /\ EdgeTypeFilter(e, edge_types)

\* mutant: edge_type_filter left out of the recursive term
RecursiveWhereUnfiltered(e, r, direction, depth, ts, edge_types) ==
  /\ JoinColumn(e, direction) = r.node_id
  /\ r.depth < depth
  /\ TemporalFilter(e, ts)

\* JOIN ... ON and WHERE clause of cte_recursive, r a row of the working table
RecursiveWhere(e, r, direction, depth, ts, edge_types) ==
  /\ JoinColumn(e, direction) = r.node_id
  /\ r.depth < depth
  /\ TemporalFilter(e, ts)
  /\ EdgeTypeFilter(e, edge_types)

\* cte_base: one row of depth 1 per qualifying edge incident on node_id
CteBase(E, direction, node_id, ts, edge_types) ==
  SetToBag({CteRow(e, direction, 1) :
              e \in {x \in E : BaseWhere(x, direction, node_id, ts, edge_types)}})

\* cte_recursive evaluated on working table W: one row per joined pair
\* (edge, working row); UNION ALL keeps duplicates
CteRecursive(E, W, direction, depth, ts, edge_types) ==
  LET joined(e) == {r \in BagToSet(W) :
                      RecursiveWhere(e, r, direction, depth, ts, edge_types)}
      out == UNION {{CteRow(e, direction, r.depth + 1) : r \in joined(e)} : e \in E}
      copies(e, d) == LET from == {r \in joined(e) : r.depth + 1 = d}
                      IN SumOver(from, [r \in from |-> CopiesIn(r, W)])
      edge(i) == CHOOSE e \in E : e.id = i
  IN [row \in out |-> copies(edge(row.edge_id), row.depth)]

\* The key under which cte.c holds the column selected as
\* LineageEdge.metadata_ (mapped_column("metadata", ...), models.py:294-295):
\* the column's name or the attribute's.  The library decides it, not the
\* repository.
CteColumnKeys == {"metadata", "metadata_"}

\* select(..., cte.c.metadata) at line 503: built when cte.c has that key,
\* AttributeError otherwise
EdgesStmtBuilt(key) == key = "metadata"

\* select(cte.c.edge_id, cte.c.source_id, cte.c.target_id, cte.c.edge_type,
\*        cte.c.metadata).distinct()
EdgesStmt(C) ==
  {[edge_id |-> r.edge_id, source_id |-> r.source_id,
    target_id |-> r.target_id, edge_type |-> r.edge_type] : r \in BagToSet(C)}

\* mutant: the starting node left out
NodeIdsOfEndpoints(node_id, rows) ==
  {rows[i].source_id : i \in 1..Len(rows)} \cup {rows[i].target_id : i \in 1..Len(rows)}

\* node_ids = {node_id} plus both endpoints of every row of edges_data
NodeIdsOf(node_id, rows) ==
  {node_id} \cup {rows[i].source_id : i \in 1..Len(rows)}
            \cup {rows[i].target_id : i \in 1..Len(rows)}

\* mutant: the deleted_at condition left out
NodesStmtAll(N, node_ids, include_deleted) ==
  {n \in N : n.id \in node_ids}

\* select(LineageNode).where(id IN node_ids [AND deleted_at IS NULL])
NodesStmt(N, node_ids, include_deleted) ==
  {n \in N : /\ n.id \in node_ids
             /\ (include_deleted \/ n.deleted_at = None)}

\* graph_nodes, graph_edges
GraphNodes(ns) == [i \in 1..Len(ns) |-> LineageGraphNode(ns[i])]

GraphEdges(rows) == [i \in 1..Len(rows) |-> LineageGraphEdge(rows[i])]

\* the return statement of the single-direction path
SingleResponse(direction, depth, ns, rows) ==
  IF LineageQueryParams(direction, depth)
  THEN LineageGraphResponse(GraphNodes(ns), GraphEdges(rows), Len(ns), Len(rows))
  ELSE Raised("ValidationError")

\* mutant: the two lists concatenated
MergeNodesConcat(up, down) == up.nodes \o down.nodes

\* mutant: the downstream edges left out
MergeEdgesUpstream(up, down) == DictById(up.edges)

\* all_nodes / all_edges of the both branch
MergeNodes(up, down) == DictById(up.nodes \o down.nodes)

MergeEdges(up, down) == DictById(up.edges \o down.edges)

\* the return statement of the both branch
BothResponse(depth, up, down) ==
  IF LineageQueryParams("both", depth)
  THEN LET all_nodes == MergeNodes(up, down)
           all_edges == MergeEdges(up, down)
       IN LineageGraphResponse(all_nodes, all_edges, Len(all_nodes), Len(all_edges))
  ELSE Raised("ValidationError")

-----------------------------------------------------------------------------
(* A whole call on one store state (N, E) at clock value now: the set of the  *)
(* values it may return, one for each order its two results are fetched in   *)

\* the rows of WITH RECURSIVE lineage_graph AS (cte_base UNION ALL cte_recursive)
LineageGraphCte(E, direction, node_id, depth, ts, edge_types) ==
  LET RECURSIVE Iterate(_, _)
      Iterate(W, C) ==
        LET next == CteRecursive(E, W, direction, depth, ts, edge_types)
        IN IF next = EmptyBag \/ \E r \in BagToSet(W) : r.depth >= LevelCap
           THEN C
           ELSE Iterate(next, C (+) next)
      base == CteBase(E, direction, node_id, ts, edge_types)
  IN Iterate(base, base)

\* _traverse_graph with direction upstream or downstream
TraverseSingle(N, E, now, node_id, direction, depth, as_of, edge_types, include_deleted) ==
  LET edges_result == EdgesStmt(LineageGraphCte(E, direction, node_id, depth,
                                                Timestamp(as_of, now), edge_types))
      nodes_result(rows) == NodesStmt(N, NodeIdsOf(node_id, rows), include_deleted)
  IN {Raised("AttributeError") : key \in {k \in CteColumnKeys : ~EdgesStmtBuilt(k)}}
     \cup UNION {{SingleResponse(direction, depth, ns, rows) :
                    ns \in Orderings(nodes_result(rows))} :
                 rows \in Orderings(edges_result)}

GetUpstream(N, E, now, node_id, depth, as_of, edge_types, include_deleted) ==
  TraverseSingle(N, E, now, node_id, "upstream", depth, as_of, edge_types, include_deleted)

GetDownstream(N, E, now, node_id, depth, as_of, edge_types, include_deleted) ==
  TraverseSingle(N, E, now, node_id, "downstream", depth, as_of, edge_types, include_deleted)

\* _traverse_graph
TraverseGraph(N, E, now, node_id, direction, depth, as_of, edge_types, include_deleted) ==
  IF direction = "upstream"
  THEN GetUpstream(N, E, now, node_id, depth, as_of, edge_types, include_deleted)
  ELSE IF direction = "downstream"
  THEN GetDownstream(N, E, now, node_id, depth, as_of, edge_types, include_deleted)
  ELSE LET ups == GetUpstream(N, E, now, node_id, depth, as_of, edge_types,
                              include_deleted)
           downs == GetDownstream(N, E, now, node_id, depth, as_of, edge_types,
                                  include_deleted)
       IN UNION {{IF up.status # "ok" THEN up
                  ELSE IF down.status # "ok" THEN down
                  ELSE BothResponse(depth, up, down) : down \in downs} : up \in ups}

-----------------------------------------------------------------------------
(* Arguments a caller may pass *)

SeedArgs == NodeIds \cup {MissingId}
DirectionArgs == {"upstream", "downstream", "both", "sideways"}
DepthArgs == {0} \cup (1..MaxDepthArg) \cup {DepthCeiling + 1}
AsOfArgs == {None, Some(1), Some(2)}
EdgeTypesArgs == {None, Some({}), Some({"read"})}

\* what LineageQueryParams accepts
ValidArgs(direction, depth) == DirectionPattern(direction) /\ DepthField(depth)

NoRequest ==
  [node_id |-> MissingId, direction |-> "none", depth |-> 0, as_of |-> None,
   edge_types |-> None, include_deleted |-> FALSE]

SingleDirection(direction) == direction \in {"upstream", "downstream"}

-----------------------------------------------------------------------------
(* Writing sessions: each is one AsyncSession running one repository call *)

Sessions == {"s1", "s2"}

NoEdge == Edge(0, "", "", "", 0, None)

\* pc: idle, or the await the call is suspended at; edge: the LineageEdge of
\* the call; loaded: its column values as the session loaded them (NoEdge for
\* an object the session has added); valid_to: the argument of invalidate_edge
IdleSession == [pc |-> "idle", edge |-> NoEdge, loaded |-> NoEdge, valid_to |-> None]

\* history value: no previous traversal to compare with
NoPrevious == [req |-> NoRequest, node_ids |-> {}, edge_ids |-> {}]

\* no node or run call has been made on the session
NoCall ==
  [op |-> "none", args |-> <<>>, obj |-> None, loaded |-> None,
   outcome |-> "none", value |-> None]

\* history: the store states committed while a traversal is executing
Seen(N, E) == IF pc \in {"idle", "done"} THEN stores ELSE stores \cup {<<N, E>>}

-----------------------------------------------------------------------------
(* Store states the traversal is run on *)

DeletedChoices == {{}, {"B"}}

\* rows of lineage_nodes: id, name, qualified_name, updated_at, deleted_at
NodeRow(id, name, qualified_name, updated_at, deleted_at) ==
  [id |-> id, name |-> name, qualified_name |-> qualified_name,
   updated_at |-> updated_at, deleted_at |-> deleted_at]

NodeTable(deleted) ==
  {IF n \in deleted THEN NodeRow(n, n, None, 2, Some(2))
                    ELSE NodeRow(n, n, None, 0, None) : n \in NodeIds}

EdgeTables == {E \in SUBSET CandidateEdges : Cardinality(E) <= MaxEdges}

Init ==
  /\ nodes \in {NodeTable(d) : d \in DeletedChoices}
  /\ edges \in EdgeTables
  /\ clock = 3
  /\ pc = "idle"
  /\ req = NoRequest
  /\ cur = "none"
  /\ timestamp = 0
  /\ working = EmptyBag
  /\ cte = EmptyBag
  /\ edges_data = <<>>
  /\ found = <<>>
  /\ upstream = NoResponse
  /\ downstream = NoResponse
  /\ response = NoResponse
  /\ reads = 0
  /\ sessions = [s \in Sessions |-> IdleSession]
  /\ previous = NoPrevious
  /\ calls = [s \in Sessions |-> NoCall]
  /\ runs = {}
  /\ stores = {}

-----------------------------------------------------------------------------
(* _traverse_graph, one action per statement executed on the session *)

\* entry: lines 377-382, the dispatch on direction (385, 430, 475-478) and,
\* in the first single-direction invocation, the statements built up to line
\* 503; what line 503 raises leaves the call before any statement is executed
Call(node_id, direction, depth, as_of, edge_types, include_deleted) ==
  /\ pc = "idle"
  /\ req' = [node_id |-> node_id, direction |-> direction, depth |-> depth,
             as_of |-> as_of, edge_types |-> edge_types,
             include_deleted |-> include_deleted]
  /\ cur' = IF SingleDirection(direction) THEN direction ELSE "upstream"
  /\ timestamp' = Timestamp(as_of, clock)
  /\ working' = EmptyBag
  /\ cte' = EmptyBag
  /\ edges_data' = <<>>
  /\ found' = <<>>
  /\ upstream' = NoResponse
  /\ downstream' = NoResponse
  /\ reads' = 0
  /\ \E key \in CteColumnKeys :
       IF EdgesStmtBuilt(key)
       THEN response' = NoResponse /\ pc' = "base"
       ELSE response' = Raised("AttributeError") /\ pc' = "done"
  /\ stores' = {<<nodes, edges>>}
  /\ UNCHANGED <<nodes, edges, clock>>
  /\ UNCHANGED writers

\* session.execute(edges_stmt): the non-recursive term
ExecuteBase ==
  /\ pc = "base"
  /\ working' = CteBase(edges, cur, req.node_id, timestamp, req.edge_types)
  /\ cte' = working'
  /\ reads' = reads + 1
  /\ pc' = "recursive"
  /\ UNCHANGED <<nodes, edges, clock, req, cur, timestamp, edges_data, found,
                 upstream, downstream, response>>
  /\ UNCHANGED <<writers, stores>>

\* mutant: rows that arrived at a soft-deleted node are not expanded
ExecuteRecursiveLive ==
  /\ pc = "recursive"
  /\ \A r \in BagToSet(working) : r.depth < LevelCap
  /\ LET deleted == {n.id : n \in {m \in nodes : m.deleted_at # None}}
         live == [r \in {x \in BagToSet(working) : x.node_id \notin deleted}
                    |-> CopiesIn(r, working)]
     IN working' = CteRecursive(edges, live, cur, req.depth, timestamp, req.edge_types)
  /\ IF working' = EmptyBag
     THEN /\ edges_data' \in Orderings(EdgesStmt(cte))
          /\ cte' = cte
          /\ pc' = "nodes"
     ELSE /\ cte' = cte (+) working'
          /\ edges_data' = edges_data
          /\ pc' = "recursive"
  /\ UNCHANGED <<nodes, edges, clock, req, cur, timestamp, found,
                 upstream, downstream, response, reads>>
  /\ UNCHANGED <<writers, stores>>

\* one iteration of the recursive term on the working table; the statement
\* ends with the iteration that yields no row
ExecuteRecursive ==
  /\ pc = "recursive"
  /\ \A r \in BagToSet(working) : r.depth < LevelCap
  /\ working' = CteRecursive(edges, working, cur, req.depth, timestamp, req.edge_types)
  /\ IF working' = EmptyBag
     THEN /\ edges_data' \in Orderings(EdgesStmt(cte))
          /\ cte' = cte
          /\ pc' = "nodes"
     ELSE /\ cte' = cte (+) working'
          /\ edges_data' = edges_data
          /\ pc' = "recursive"
  /\ UNCHANGED <<nodes, edges, clock, req, cur, timestamp, found,
                 upstream, downstream, response, reads>>
  /\ UNCHANGED <<writers, stores>>

\* session.execute(nodes_stmt)
ExecuteNodes ==
  /\ pc = "nodes"
  /\ found' \in Orderings(NodesStmt(nodes, NodeIdsOf(req.node_id, edges_data),
                                     req.include_deleted))
  /\ reads' = reads + 1
  /\ pc' = "respond"
  /\ UNCHANGED <<nodes, edges, clock, req, cur, timestamp, working, cte, edges_data,
                 upstream, downstream, response>>
  /\ UNCHANGED <<writers, stores>>

\* lines 522-559 of the invocation in progress; in the both branch its value
\* becomes `upstream` or `downstream`, and what it raises leaves the outer call
Respond ==
  /\ pc = "respond"
  /\ IF SingleDirection(req.direction) \/ ~LineageQueryParams(cur, req.depth)
     THEN /\ response' = SingleResponse(cur, req.depth, found, edges_data)
          /\ pc' = "done"
          /\ UNCHANGED <<cur, timestamp, working, cte, upstream, downstream>>
     ELSE IF cur = "upstream"
     THEN /\ upstream' = SingleResponse(cur, req.depth, found, edges_data)
          /\ cur' = "downstream"
          /\ timestamp' = Timestamp(req.as_of, clock)
          /\ working' = EmptyBag
          /\ cte' = EmptyBag
          /\ pc' = "base"
          /\ UNCHANGED <<downstream, response>>
     ELSE /\ downstream' = SingleResponse(cur, req.depth, found, edges_data)
          /\ pc' = "merge"
          /\ UNCHANGED <<cur, timestamp, working, cte, upstream, response>>
  /\ UNCHANGED <<nodes, edges, clock, req, edges_data, found, reads>>
  /\ UNCHANGED <<writers, stores>>

\* lines 481-497
Merge ==
  /\ pc = "merge"
  /\ response' = BothResponse(req.depth, upstream, downstream)
  /\ pc' = "done"
  /\ UNCHANGED <<nodes, edges, clock, req, cur, timestamp, working, cte,
                 edges_data, found, upstream, downstream, reads>>
  /\ UNCHANGED <<writers, stores>>

\* the invocation is over: its locals are gone
Finish ==
  /\ pc = "done"
  /\ pc' = "idle"
  /\ req' = NoRequest
  /\ cur' = "none"
  /\ timestamp' = 0
  /\ working' = EmptyBag
  /\ cte' = EmptyBag
  /\ edges_data' = <<>>
  /\ found' = <<>>
  /\ upstream' = NoResponse
  /\ downstream' = NoResponse
  /\ response' = NoResponse
  /\ reads' = 0
  /\ stores' = {}
  /\ UNCHANGED <<nodes, edges, clock>>

\* the caller has the response (or the exception); the next call may start
Return ==
  /\ Finish
  /\ UNCHANGED writers

\* a call with arguments LineageQueryParams accepts
Traverse ==
  /\ pc = "idle"
  /\ \E node_id \in SeedArgs, direction \in DirectionArgs, depth \in DepthArgs,
        as_of \in AsOfArgs, edge_types \in EdgeTypesArgs, include_deleted \in BOOLEAN :
       /\ ValidArgs(direction, depth)
       /\ Call(node_id, direction, depth, as_of, edge_types, include_deleted)

\* a call with a direction or a depth LineageQueryParams rejects
TraverseInvalid ==
  /\ pc = "idle"
  /\ \E node_id \in SeedArgs, direction \in DirectionArgs, depth \in DepthArgs :
       /\ ~ValidArgs(direction, depth)
       /\ Call(node_id, direction, depth, None, None, FALSE)

Next ==
  \/ Traverse
  \/ TraverseInvalid
  \/ ExecuteBase
  \/ ExecuteRecursive
  \/ ExecuteNodes
  \/ Respond
  \/ Merge
  \/ Return

Spec == Init /\ [][Next]_vars

\* the task running the call is resumed after every awaited statement
Step == ExecuteBase \/ ExecuteRecursive \/ ExecuteNodes \/ Respond \/ Merge

FairSpec == Spec /\ WF_vars(Step)

-----------------------------------------------------------------------------
(* create_edge and invalidate_edge on a store that starts empty, one action  *)
(* per awaited statement, two sessions at a time                             *)

MaxStored == 2
MaxClock == 2

Triples == {<<"A", "B", "read">>, <<"B", "C", "read">>}
ValidFromArgs == {None}
ValidToArgs == {None, Some(2)}
EdgeIdArgs == 1..MaxStored
InvalidateArgs == {None, Some(1)}

\* LineageEdgeBase.valid_from: Field(default_factory=datetime.utcnow)
ValidFrom(valid_from, now) == IF valid_from # None THEN valid_from[1] ELSE now

\* edge.valid_to = valid_to or datetime.utcnow()
ValidTo(valid_to, now) == IF valid_to # None THEN valid_to[1] ELSE now

\* id: default=uuid4, a value no row and no pending object has
FreshId ==
  LET used == {e.id : e \in edges} \cup {sessions[s].edge.id : s \in Sessions}
  IN CHOOSE i \in 1..(MaxStored + 2) :
       i \notin used /\ \A j \in 1..(i - 1) : j \in used

\* uq_edge_active as declared: UNIQUE (source_id, target_id, edge_type)
\* WHERE valid_to IS NULL
UqEdgeActive(E) ==
  \A e, f \in E :
    (/\ e.valid_to = None /\ f.valid_to = None
     /\ e.source_id = f.source_id /\ e.target_id = f.target_id
     /\ e.edge_type = f.edge_type) => e = f

\* the same declaration without its postgresql_where:
\* UNIQUE (source_id, target_id, edge_type)
UqEdgeKey(E) ==
  \A e, f \in E :
    (/\ e.source_id = f.source_id /\ e.target_id = f.target_id
     /\ e.edge_type = f.edge_type) => e = f

\* uq_edge_active is declared as UniqueConstraint(..., postgresql_where=...),
\* in the model class and in the migration alike; postgresql_where is an
\* option of Index, and a UNIQUE table constraint has no WHERE.  What the
\* store enforces for this declaration is not decided by the repository:
\* the constraint as written, the constraint on every row, or nothing.
\* idx_edge_active is an index without unique=True and enforces nothing.
EdgeConstraints == {"declared", "all_rows", "none"}

\* whether the table E, the new row included, is accepted under `enforced`
EdgeTableAccepted(enforced, E) ==
  CASE enforced = "declared" -> UqEdgeActive(E)
    [] enforced = "all_rows" -> UqEdgeKey(E)
    [] enforced = "none" -> TRUE

\* get_edge: scalar_one_or_none() of SELECT ... WHERE id = edge_id
GetEdge(E, edge_id) ==
  IF \E e \in E : e.id = edge_id THEN Some(CHOOSE e \in E : e.id = edge_id) ELSE None

\* create_edge up to its first await: LineageEdge(**edge_data.model_dump()),
\* session.add(edge)
CreateEdge(s) ==
  /\ sessions[s].pc = "idle"
  /\ Cardinality(edges) + Cardinality({t \in Sessions : sessions[t].pc = "commit"})
       < MaxStored
  /\ \E tr \in Triples, valid_from \in ValidFromArgs, valid_to \in ValidToArgs :
       sessions' = [sessions EXCEPT ![s] =
                      [pc |-> "commit",
                       edge |-> Edge(FreshId, tr[1], tr[2], tr[3],
                                     ValidFrom(valid_from, clock), valid_to),
                       loaded |-> NoEdge,
                       valid_to |-> None]]
  /\ UNCHANGED <<nodes, edges, clock, pc, req, cur, timestamp, working, cte,
                 edges_data, found, upstream, downstream, response, reads,
                 previous, calls, runs, stores>>

\* await session.commit(): the INSERT, which create_edge sends without
\* reading the table; it is accepted, or rejected with IntegrityError, by
\* whatever the store enforces
CreateEdgeCommit(s) ==
  /\ sessions[s].pc = "commit"
  /\ pc # "recursive"
  /\ \E enforced \in EdgeConstraints :
       IF EdgeTableAccepted(enforced, edges \cup {sessions[s].edge})
       THEN /\ edges' = edges \cup {sessions[s].edge}
            /\ sessions' = [sessions EXCEPT ![s].pc = "refresh"]
            /\ previous' = NoPrevious
       ELSE /\ sessions' = [sessions EXCEPT ![s].pc = "raised"]
            /\ UNCHANGED <<edges, previous>>
  /\ UNCHANGED <<nodes, clock, pc, req, cur, timestamp, working, cte,
                 edges_data, found, upstream, downstream, response, reads,
                 calls, runs>>
  /\ stores' = Seen(nodes', edges')

\* await session.refresh(edge); return edge -- or IntegrityError leaves the call
CreateEdgeReturn(s) ==
  /\ sessions[s].pc \in {"refresh", "raised"}
  /\ sessions' = [sessions EXCEPT ![s] = IdleSession]
  /\ UNCHANGED <<nodes, edges, clock, pc, req, cur, timestamp, working, cte,
                 edges_data, found, upstream, downstream, response, reads,
                 previous, calls, runs, stores>>

\* invalidate_edge up to its first await: the SELECT of get_edge; with no row
\* the call returns False when it resumes, reading nothing more
InvalidateEdge(s) ==
  /\ sessions[s].pc = "idle"
  /\ \E edge_id \in EdgeIdArgs, valid_to \in InvalidateArgs :
       sessions' = [sessions EXCEPT ![s] =
                      IF GetEdge(edges, edge_id) = None
                      THEN IdleSession
                      ELSE [pc |-> "get_edge",
                            edge |-> GetEdge(edges, edge_id)[1],
                            loaded |-> GetEdge(edges, edge_id)[1],
                            valid_to |-> valid_to]]
  /\ UNCHANGED <<nodes, edges, clock, pc, req, cur, timestamp, working, cte,
                 edges_data, found, upstream, downstream, response, reads,
                 previous, calls, runs, stores>>

\* the call resumes with the row: edge.valid_to = valid_to or datetime.utcnow(),
\* up to its commit
InvalidateEdgeAssign(s) ==
  /\ sessions[s].pc = "get_edge"
  /\ sessions' = [sessions EXCEPT
                    ![s].pc = "update",
                    ![s].edge.valid_to = Some(ValidTo(sessions[s].valid_to, clock))]
  /\ UNCHANGED <<nodes, edges, clock, pc, req, cur, timestamp, working, cte,
                 edges_data, found, upstream, downstream, response, reads,
                 previous, calls, runs, stores>>

\* await session.commit(): the flush writes the attributes whose value differs
\* from the loaded one, UPDATE lineage_edges SET valid_to = ... WHERE id = ...,
\* and no statement when none differs; return True
InvalidateEdgeCommit(s) ==
  /\ sessions[s].pc = "update"
  /\ pc # "recursive"
  /\ IF sessions[s].edge.valid_to # sessions[s].loaded.valid_to
     THEN /\ edges' = {IF e.id = sessions[s].edge.id
                       THEN [e EXCEPT !.valid_to = sessions[s].edge.valid_to]
                       ELSE e : e \in edges}
          /\ previous' = NoPrevious
     ELSE UNCHANGED <<edges, previous>>
  /\ sessions' = [sessions EXCEPT ![s] = IdleSession]
  /\ UNCHANGED <<nodes, clock, pc, req, cur, timestamp, working, cte,
                 edges_data, found, upstream, downstream, response, reads,
                 calls, runs>>
  /\ stores' = Seen(nodes', edges')

\* datetime.utcnow() moves on
Tick ==
  /\ clock < MaxClock
  /\ clock' = clock + 1
  /\ UNCHANGED <<nodes, edges, pc, req, cur, timestamp, working, cte,
                 edges_data, found, upstream, downstream, response, reads,
                 sessions, previous, calls, runs, stores>>

StoreSeedArgs == {"A"}
StoreDirectionArgs == {"downstream"}
StoreDepthArgs == {2}
StoreAsOfArgs == {Some(t) : t \in 0..MaxClock}

\* a traversal of the written store
TraverseStore ==
  /\ pc = "idle"
  /\ \E node_id \in StoreSeedArgs, direction \in StoreDirectionArgs,
        depth \in StoreDepthArgs, as_of \in StoreAsOfArgs :
       Call(node_id, direction, depth, as_of, None, FALSE)

\* the caller has the response; the history keeps what it was
Receive ==
  /\ Finish
  /\ previous' = IF response.status # "ok"
                 THEN NoPrevious
                 ELSE [req |-> req, node_ids |-> Ids(response.nodes),
                       edge_ids |-> Ids(response.edges)]
  /\ UNCHANGED <<sessions, calls, runs>>

WriteInit ==
  /\ nodes = NodeTable({})
  /\ edges = {}
  /\ clock = 0
  /\ pc = "idle"
  /\ req = NoRequest
  /\ cur = "none"
  /\ timestamp = 0
  /\ working = EmptyBag
  /\ cte = EmptyBag
  /\ edges_data = <<>>
  /\ found = <<>>
  /\ upstream = NoResponse
  /\ downstream = NoResponse
  /\ response = NoResponse
  /\ reads = 0
  /\ sessions = [s \in Sessions |-> IdleSession]
  /\ previous = NoPrevious
  /\ calls = [s \in Sessions |-> NoCall]
  /\ runs = {}
  /\ stores = {}

\* one client, one call at a time: writes and clock ticks
Client == "s1"

WriteNext ==
  \/ Tick
  \/ CreateEdge(Client)
  \/ CreateEdgeCommit(Client)
  \/ CreateEdgeReturn(Client)
  \/ InvalidateEdge(Client)
  \/ InvalidateEdgeAssign(Client)
  \/ InvalidateEdgeCommit(Client)

WriteSpec == WriteInit /\ [][WriteNext]_vars

\* the client's writes, and between them its traversals
ReadNext ==
  \/ pc = "idle" /\ WriteNext
  \/ sessions[Client].pc = "idle" /\ TraverseStore
  \/ ExecuteBase
  \/ ExecuteRecursive
  \/ ExecuteNodes
  \/ Respond
  \/ Receive

ReadSpec == WriteInit /\ [][ReadNext]_vars

\* two sessions, each calling create_edge, in any interleaving
RaceNext ==
  \/ Tick
  \/ \E s \in Sessions : CreateEdge(s)
  \/ \E s \in Sessions : CreateEdgeCommit(s)
  \/ \E s \in Sessions : CreateEdgeReturn(s)

RaceSpec == WriteInit /\ [][RaceNext]_vars

-----------------------------------------------------------------------------
(* Vocabulary of the properties *)

(* Node operations: create_node, get_node, update_node, soft_delete_node,    *)
(* one action per awaited statement                                          *)

MaxNodes == 2

NodeIdOrder == <<"A", "B", "C", "D">>
NodeIdArgs == {"A", MissingId}
NameArgs == {"n1"}
UpdateNameArgs == {None, Some("n2")}
QualifiedNameArgs == {None, Some(""), Some("q")}

\* the variables of the running traversal
traversal == <<pc, req, cur, timestamp, working, cte, edges_data, found,
               upstream, downstream, response, reads>>

\* a call that has returned, raised, or is suspended at an await
Returns(op, args, value) ==
  [op |-> op, args |-> args, obj |-> None, loaded |-> None,
   outcome |-> "return", value |-> value]

Raises(op, args, what) ==
  [op |-> op, args |-> args, obj |-> None, loaded |-> None,
   outcome |-> "raise", value |-> what]

\* obj: the mapped object of the call; loaded: its column values as the session
\* loaded them, None for an object the session has added
Pending(op, args, obj, loaded) ==
  [op |-> op, args |-> args, obj |-> Some(obj), loaded |-> loaded,
   outcome |-> "pending", value |-> None]

\* id: default=uuid4, evaluated when the row is inserted
FreshNodeId ==
  NodeIdOrder[CHOOSE i \in 1..Len(NodeIdOrder) :
                /\ NodeIdOrder[i] \notin {n.id : n \in nodes}
                /\ \A j \in 1..(i - 1) : NodeIdOrder[j] \in {n.id : n \in nodes}]

\* uq_node_qualified_name as declared: UNIQUE (qualified_name)
\*   WHERE qualified_name IS NOT NULL AND deleted_at IS NULL
UqNodeQualifiedName(N) ==
  \A m, n \in N :
    (/\ m.qualified_name # None /\ m.deleted_at = None
     /\ n.qualified_name # None /\ n.deleted_at = None
     /\ m.qualified_name = n.qualified_name) => m = n

\* the same declaration without its postgresql_where: UNIQUE (qualified_name),
\* under which NULLs never collide
UqNodeName(N) ==
  \A m, n \in N :
    (/\ m.qualified_name # None /\ n.qualified_name # None
     /\ m.qualified_name = n.qualified_name) => m = n

\* uq_node_qualified_name is declared in the same form as uq_edge_active, so
\* what the store enforces for it is as little decided by the repository
NodeConstraints == {"declared", "all_rows", "none"}

\* whether the table N, the new row included, is accepted under `enforced`
NodeTableAccepted(enforced, N) ==
  CASE enforced = "declared" -> UqNodeQualifiedName(N)
    [] enforced = "all_rows" -> UqNodeName(N)
    [] enforced = "none" -> TRUE

\* mutant: the deleted_at condition never appended
GetNodeStmtAll(N, node_id, qualified_name, include_deleted) ==
  {n \in N : IF node_id # None THEN n.id = node_id[1]
                               ELSE n.qualified_name = qualified_name}

\* select(LineageNode).where(and_(*conditions)), node_id or qualified_name given
GetNodeStmt(N, node_id, qualified_name, include_deleted) ==
  {n \in N : /\ IF node_id # None THEN n.id = node_id[1]
                                  ELSE n.qualified_name = qualified_name
             /\ (include_deleted \/ n.deleted_at = None)}

\* Result.scalar_one_or_none()
ScalarOneOrNone(op, args, rows) ==
  IF rows = {} THEN Returns(op, args, None)
  ELSE IF Cardinality(rows) = 1 THEN Returns(op, args, Some(CHOOSE n \in rows : TRUE))
  ELSE Raises(op, args, "MultipleResultsFound")

\* `if node_id:` / `elif qualified_name:` -- None is false, and so is the
\* empty string; a UUID is true
Truthy(arg) == arg # None /\ arg[1] # ""

\* get_node as the call op made with args
GetNodeAs(op, args, N, node_id, qualified_name, include_deleted) ==
  IF Truthy(node_id) \/ Truthy(qualified_name)
  THEN ScalarOneOrNone(op, args, GetNodeStmt(N, node_id, qualified_name, include_deleted))
  ELSE Returns(op, args, None)

\* the arguments get_node is called with
GetNodeArgs ==
  {a \in [node_id : {None} \cup {Some(n) : n \in NodeIdArgs},
          qualified_name : QualifiedNameArgs, include_deleted : BOOLEAN] :
     a.node_id = None \/ a.qualified_name = None}

\* get_node
GetNode(s) ==
  /\ sessions[s].pc = "idle"
  /\ \E a \in GetNodeArgs :
       calls' = [calls EXCEPT ![s] =
                   GetNodeAs("get_node", a, nodes, a.node_id, a.qualified_name,
                             a.include_deleted)]
  /\ UNCHANGED <<nodes, edges, clock, sessions, previous, runs, stores>>
  /\ UNCHANGED traversal

\* create_node up to its first await: LineageNode(**node_data.model_dump()),
\* session.add(node)
CreateNode(s) ==
  /\ sessions[s].pc = "idle"
  /\ Cardinality(nodes) < MaxNodes
  /\ \E name \in NameArgs, qualified_name \in QualifiedNameArgs :
       calls' = [calls EXCEPT ![s] =
                   Pending("create_node",
                           [name |-> name, qualified_name |-> qualified_name],
                           NodeRow("", name, qualified_name, 0, None), None)]
  /\ sessions' = [sessions EXCEPT ![s].pc = "insert_node"]
  /\ UNCHANGED <<nodes, edges, clock, previous, runs, stores>>
  /\ UNCHANGED traversal

\* await session.commit(): the INSERT with the column defaults, which
\* create_node sends without reading the table; it is accepted, or rejected
\* with IntegrityError, by whatever the store enforces
CreateNodeCommit(s) ==
  /\ sessions[s].pc = "insert_node"
  /\ pc # "recursive"
  /\ \E enforced \in NodeConstraints :
       LET node == [calls[s].obj[1] EXCEPT !.id = FreshNodeId, !.updated_at = clock]
       IN IF NodeTableAccepted(enforced, nodes \cup {node})
          THEN /\ nodes' = nodes \cup {node}
               /\ calls' = [calls EXCEPT ![s].obj = Some(node)]
               /\ sessions' = [sessions EXCEPT ![s].pc = "refresh_node"]
               /\ previous' = NoPrevious
          ELSE /\ calls' = [calls EXCEPT ![s] =
                              Raises("create_node", calls[s].args, "IntegrityError")]
               /\ sessions' = [sessions EXCEPT ![s].pc = "idle"]
               /\ UNCHANGED <<nodes, previous>>
  /\ stores' = Seen(nodes', edges)
  /\ UNCHANGED <<edges, clock, runs>>
  /\ UNCHANGED traversal

\* await session.refresh(node); return node
RefreshNode(s) ==
  /\ sessions[s].pc = "refresh_node"
  /\ calls' = [calls EXCEPT ![s] =
                 Returns(calls[s].op, calls[s].args,
                         Some(CHOOSE n \in nodes : n.id = calls[s].obj[1].id))]
  /\ sessions' = [sessions EXCEPT ![s].pc = "idle"]
  /\ UNCHANGED <<nodes, edges, clock, previous, runs, stores>>
  /\ UNCHANGED traversal

\* the flush of session.commit() for a loaded LineageNode: the table after
\* UPDATE lineage_nodes SET <the attributes whose value differs from the loaded
\* one> WHERE id, with updated_at = utcnow() (onupdate) when it is not among
\* them; no statement when no attribute differs
FlushNode(N, loaded, obj, now) ==
  IF obj = loaded THEN N
  ELSE {IF n.id = obj.id
        THEN [n EXCEPT
                !.name = IF obj.name # loaded.name THEN obj.name ELSE @,
                !.deleted_at = IF obj.deleted_at # loaded.deleted_at
                               THEN obj.deleted_at ELSE @,
                !.updated_at = IF obj.updated_at # loaded.updated_at
                               THEN obj.updated_at ELSE now]
        ELSE n : n \in N}

\* update_node up to its first await: the SELECT of get_node(node_id=node_id);
\* with no row the call returns None when it resumes, reading nothing more
UpdateNode(s) ==
  /\ sessions[s].pc = "idle"
  /\ \E node_id \in NodeIdArgs, name \in UpdateNameArgs :
       LET args == [node_id |-> node_id, name |-> name]
           got == GetNodeAs("update_node", args, nodes, Some(node_id), None, FALSE)
       IN IF got.value = None
          THEN /\ calls' = [calls EXCEPT ![s] = got]
               /\ UNCHANGED sessions
          ELSE /\ calls' = [calls EXCEPT ![s] =
                              Pending("update_node", args, got.value[1], got.value)]
               /\ sessions' = [sessions EXCEPT ![s].pc = "get_node"]
  /\ UNCHANGED <<nodes, edges, clock, previous, runs, stores>>
  /\ UNCHANGED traversal

\* the call resumes with the row: setattr per set field,
\* node.updated_at = datetime.utcnow(), up to its commit
UpdateNodeAssign(s) ==
  /\ sessions[s].pc = "get_node"
  /\ calls[s].op = "update_node"
  /\ calls' = [calls EXCEPT
                 ![s].obj = Some([calls[s].obj[1] EXCEPT
                                    !.name = IF calls[s].args.name = None
                                             THEN @ ELSE calls[s].args.name[1],
                                    !.updated_at = clock])]
  /\ sessions' = [sessions EXCEPT ![s].pc = "update_node"]
  /\ UNCHANGED <<nodes, edges, clock, previous, runs, stores>>
  /\ UNCHANGED traversal

\* await session.commit()
UpdateNodeCommit(s) ==
  /\ sessions[s].pc = "update_node"
  /\ pc # "recursive"
  /\ nodes' = FlushNode(nodes, calls[s].loaded[1], calls[s].obj[1], clock)
  /\ sessions' = [sessions EXCEPT ![s].pc = "refresh_node"]
  /\ previous' = IF nodes' = nodes THEN previous ELSE NoPrevious
  /\ stores' = Seen(nodes', edges)
  /\ UNCHANGED <<edges, clock, calls, runs>>
  /\ UNCHANGED traversal

\* soft_delete_node up to its first await: the SELECT of
\* get_node(node_id=node_id); with no row the call returns False when it
\* resumes, reading nothing more
SoftDeleteNode(s) ==
  /\ sessions[s].pc = "idle"
  /\ \E node_id \in NodeIdArgs :
       LET args == [node_id |-> node_id]
           got == GetNodeAs("soft_delete_node", args, nodes, Some(node_id), None, FALSE)
       IN IF got.value = None
          THEN /\ calls' = [calls EXCEPT ![s] = Returns("soft_delete_node", args, FALSE)]
               /\ UNCHANGED sessions
          ELSE /\ calls' = [calls EXCEPT ![s] =
                              Pending("soft_delete_node", args, got.value[1], got.value)]
               /\ sessions' = [sessions EXCEPT ![s].pc = "get_node"]
  /\ UNCHANGED <<nodes, edges, clock, previous, runs, stores>>
  /\ UNCHANGED traversal

\* the call resumes with the row: node.deleted_at = datetime.utcnow(), up to
\* its commit
SoftDeleteNodeAssign(s) ==
  /\ sessions[s].pc = "get_node"
  /\ calls[s].op = "soft_delete_node"
  /\ calls' = [calls EXCEPT
                 ![s].obj = Some([calls[s].obj[1] EXCEPT !.deleted_at = Some(clock)])]
  /\ sessions' = [sessions EXCEPT ![s].pc = "delete_node"]
  /\ UNCHANGED <<nodes, edges, clock, previous, runs, stores>>
  /\ UNCHANGED traversal

\* await session.commit(); return True
SoftDeleteNodeCommit(s) ==
  /\ sessions[s].pc = "delete_node"
  /\ pc # "recursive"
  /\ nodes' = FlushNode(nodes, calls[s].loaded[1], calls[s].obj[1], clock)
  /\ calls' = [calls EXCEPT ![s] = Returns("soft_delete_node", calls[s].args, TRUE)]
  /\ sessions' = [sessions EXCEPT ![s].pc = "idle"]
  /\ previous' = IF nodes' = nodes THEN previous ELSE NoPrevious
  /\ stores' = Seen(nodes', edges)
  /\ UNCHANGED <<edges, clock, runs>>
  /\ UNCHANGED traversal

EmptyInit ==
  /\ nodes = {}
  /\ edges = {}
  /\ clock = 0
  /\ pc = "idle"
  /\ req = NoRequest
  /\ cur = "none"
  /\ timestamp = 0
  /\ working = EmptyBag
  /\ cte = EmptyBag
  /\ edges_data = <<>>
  /\ found = <<>>
  /\ upstream = NoResponse
  /\ downstream = NoResponse
  /\ response = NoResponse
  /\ reads = 0
  /\ sessions = [s \in Sessions |-> IdleSession]
  /\ previous = NoPrevious
  /\ calls = [s \in Sessions |-> NoCall]
  /\ runs = {}
  /\ stores = {}

\* one client calling the node operations on a store that starts empty
NodeNext ==
  \/ Tick
  \/ CreateNode(Client)
  \/ CreateNodeCommit(Client)
  \/ RefreshNode(Client)
  \/ GetNode(Client)
  \/ UpdateNode(Client)
  \/ UpdateNodeAssign(Client)
  \/ UpdateNodeCommit(Client)
  \/ SoftDeleteNode(Client)
  \/ SoftDeleteNodeAssign(Client)
  \/ SoftDeleteNodeCommit(Client)

NodeSpec == EmptyInit /\ [][NodeNext]_vars

-----------------------------------------------------------------------------

(* Run operations: create_run, get_run, update_run                           *)

RunIdArgs == {"r1", "r2"}
StatusArgs == {"created", "running", "success", "failed"}
UpdateStatusArgs == {None} \cup {Some(st) : st \in StatusArgs}
CompletedArgs == {FALSE, TRUE}

\* rows of lineage_runs: run_id, status, completed_at
RunRow(run_id, status, completed_at) ==
  [run_id |-> run_id, status |-> status, completed_at |-> completed_at]

\* UNIQUE (run_id): whether table Rs accepts the INSERT of run
UqRunId(Rs, run) == \A r \in Rs : r.run_id # run.run_id

\* select(LineageRun).where(LineageRun.run_id == run_id)
GetRunStmt(Rs, run_id) == {r \in Rs : r.run_id = run_id}

\* get_run
GetRun(s) ==
  /\ sessions[s].pc = "idle"
  /\ \E run_id \in RunIdArgs :
       calls' = [calls EXCEPT ![s] =
                   ScalarOneOrNone("get_run", [run_id |-> run_id],
                                   GetRunStmt(runs, run_id))]
  /\ UNCHANGED <<nodes, edges, clock, sessions, previous, runs, stores>>
  /\ UNCHANGED traversal

\* create_run up to its first await: LineageRun(**run_data.model_dump()),
\* session.add(run)
CreateRun(s) ==
  /\ sessions[s].pc = "idle"
  /\ \E run_id \in RunIdArgs, status \in StatusArgs :
       calls' = [calls EXCEPT ![s] =
                   Pending("create_run", [run_id |-> run_id, status |-> status],
                           RunRow(run_id, status, None), None)]
  /\ sessions' = [sessions EXCEPT ![s].pc = "insert_run"]
  /\ UNCHANGED <<nodes, edges, clock, previous, runs, stores>>
  /\ UNCHANGED traversal

\* await session.commit(): the INSERT, accepted or rejected by UNIQUE (run_id)
CreateRunCommit(s) ==
  /\ sessions[s].pc = "insert_run"
  /\ IF UqRunId(runs, calls[s].obj[1])
     THEN /\ runs' = runs \cup {calls[s].obj[1]}
          /\ sessions' = [sessions EXCEPT ![s].pc = "refresh_run"]
          /\ UNCHANGED calls
     ELSE /\ calls' = [calls EXCEPT ![s] =
                         Raises("create_run", calls[s].args, "IntegrityError")]
          /\ sessions' = [sessions EXCEPT ![s].pc = "idle"]
          /\ UNCHANGED runs
  /\ UNCHANGED <<nodes, edges, clock, previous, stores>>
  /\ UNCHANGED traversal

\* await session.refresh(run); return run
RefreshRun(s) ==
  /\ sessions[s].pc = "refresh_run"
  /\ calls' = [calls EXCEPT ![s] =
                 Returns(calls[s].op, calls[s].args,
                         Some(CHOOSE r \in runs : r.run_id = calls[s].obj[1].run_id))]
  /\ sessions' = [sessions EXCEPT ![s].pc = "idle"]
  /\ UNCHANGED <<nodes, edges, clock, previous, runs, stores>>
  /\ UNCHANGED traversal

\* update_run up to the await of get_run(run_id): the SELECT; `if not run:
\* return None` when no row matches. completed_at, when the caller sets it, is
\* the caller's value (the time of the call)
UpdateRun(s) ==
  /\ sessions[s].pc = "idle"
  /\ \E run_id \in RunIdArgs, status \in UpdateStatusArgs, completed \in CompletedArgs :
       LET args == [run_id |-> run_id, status |-> status,
                    completed_at |-> IF completed THEN Some(clock) ELSE None]
           got == ScalarOneOrNone("update_run", args, GetRunStmt(runs, run_id))
       IN IF got.value = None
          THEN /\ calls' = [calls EXCEPT ![s] = got]
               /\ UNCHANGED sessions
          ELSE /\ calls' = [calls EXCEPT ![s] =
                              Pending("update_run", args, got.value[1], got.value)]
               /\ sessions' = [sessions EXCEPT ![s].pc = "get_run"]
  /\ UNCHANGED <<nodes, edges, clock, previous, runs, stores>>
  /\ UNCHANGED traversal

\* the call resumes with the row: setattr(run, field, value) for every field
\* of run_data.model_dump(exclude_unset=True), up to its commit
UpdateRunAssign(s) ==
  /\ sessions[s].pc = "get_run"
  /\ calls[s].op = "update_run"
  /\ calls' = [calls EXCEPT
                 ![s].obj = Some([calls[s].obj[1] EXCEPT
                                    !.status = IF calls[s].args.status = None
                                               THEN @ ELSE calls[s].args.status[1],
                                    !.completed_at =
                                       IF calls[s].args.completed_at = None
                                       THEN @ ELSE calls[s].args.completed_at])]
  /\ sessions' = [sessions EXCEPT ![s].pc = "update_run"]
  /\ UNCHANGED <<nodes, edges, clock, previous, runs, stores>>
  /\ UNCHANGED traversal

\* the flush of session.commit() for a loaded LineageRun: the table after
\* UPDATE lineage_runs SET <the attributes whose value differs from the loaded
\* one> WHERE id; no statement when no attribute differs
FlushRun(Rs, loaded, obj) ==
  {IF r.run_id = obj.run_id
   THEN [r EXCEPT
           !.status = IF obj.status # loaded.status THEN obj.status ELSE @,
           !.completed_at = IF obj.completed_at # loaded.completed_at
                            THEN obj.completed_at ELSE @]
   ELSE r : r \in Rs}

\* await session.commit()
UpdateRunCommit(s) ==
  /\ sessions[s].pc = "update_run"
  /\ runs' = FlushRun(runs, calls[s].loaded[1], calls[s].obj[1])
  /\ sessions' = [sessions EXCEPT ![s].pc = "refresh_run"]
  /\ UNCHANGED <<nodes, edges, clock, previous, calls, stores>>
  /\ UNCHANGED traversal

\* one client calling the run operations on a store that starts empty
RunNext ==
  \/ Tick
  \/ CreateRun(Client)
  \/ CreateRunCommit(Client)
  \/ RefreshRun(Client)
  \/ GetRun(Client)
  \/ UpdateRun(Client)
  \/ UpdateRunAssign(Client)
  \/ UpdateRunCommit(Client)

RunSpec == EmptyInit /\ [][RunNext]_vars

-----------------------------------------------------------------------------

(* A traversal running while another caller writes: the statements of the    *)
(* traversal and the commits of the writer in any interleaving               *)

MaxCommits == 2

ConcurrentSeedArgs == {"A", "B"}
ConcurrentDirectionArgs == {"downstream", "both"}
ConcurrentAsOfArgs == {None, Some(0)}

\* a traversal of the store being written
TraverseConcurrent ==
  /\ pc = "idle"
  /\ \E node_id \in ConcurrentSeedArgs, direction \in ConcurrentDirectionArgs,
        depth \in StoreDepthArgs, as_of \in ConcurrentAsOfArgs :
       Call(node_id, direction, depth, as_of, None, FALSE)

\* mutant: the aborted call removes the edges it had read
AbortRemoving ==
  /\ pc \in {"base", "recursive", "nodes", "respond", "merge"}
  /\ response' = Raised("CancelledError")
  /\ pc' = "done"
  /\ edges' = {e \in edges : e.id \notin {r.edge_id : r \in BagToSet(cte)}}
  /\ working' = EmptyBag
  /\ cte' = EmptyBag
  /\ edges_data' = <<>>
  /\ found' = <<>>
  /\ upstream' = NoResponse
  /\ downstream' = NoResponse
  /\ UNCHANGED <<nodes, clock, req, cur, timestamp, reads>>
  /\ UNCHANGED <<writers, stores>>

\* the call is aborted at an await: the exception leaves _traverse_graph and
\* its locals are gone
Abort ==
  /\ pc \in {"base", "recursive", "nodes", "respond", "merge"}
  /\ response' = Raised("CancelledError")
  /\ pc' = "done"
  /\ working' = EmptyBag
  /\ cte' = EmptyBag
  /\ edges_data' = <<>>
  /\ found' = <<>>
  /\ upstream' = NoResponse
  /\ downstream' = NoResponse
  /\ UNCHANGED <<nodes, edges, clock, req, cur, timestamp, reads>>
  /\ UNCHANGED <<writers, stores>>

\* the other caller's steps are those taken while the traversal executes
Executing == pc \notin {"idle", "done"}

\* the commits that land while it executes are at most MaxCommits
CommitLands == Executing /\ Cardinality(stores) <= MaxCommits

\* one traversal of a store that starts empty, and the writes of another
\* caller that interleave with it
ConcurrentNext ==
  \/ TraverseConcurrent
  \/ Executing /\ CreateEdge(Client)
  \/ CommitLands /\ CreateEdgeCommit(Client)
  \/ Executing /\ CreateEdgeReturn(Client)
  \/ Executing /\ InvalidateEdge(Client)
  \/ Executing /\ InvalidateEdgeAssign(Client)
  \/ CommitLands /\ InvalidateEdgeCommit(Client)
  \/ Executing /\ SoftDeleteNode(Client)
  \/ Executing /\ SoftDeleteNodeAssign(Client)
  \/ CommitLands /\ SoftDeleteNodeCommit(Client)
  \/ ExecuteBase
  \/ ExecuteRecursive
  \/ ExecuteNodes
  \/ Respond
  \/ Merge
  \/ Abort

ConcurrentSpec == WriteInit /\ [][ConcurrentNext]_vars

ClockInit ==
  /\ nodes = NodeTable({})
  /\ edges \in EdgeTables
  /\ clock = 0
  /\ pc = "idle"
  /\ req = NoRequest
  /\ cur = "none"
  /\ timestamp = 0
  /\ working = EmptyBag
  /\ cte = EmptyBag
  /\ edges_data = <<>>
  /\ found = <<>>
  /\ upstream = NoResponse
  /\ downstream = NoResponse
  /\ response = NoResponse
  /\ reads = 0
  /\ sessions = [s \in Sessions |-> IdleSession]
  /\ previous = NoPrevious
  /\ calls = [s \in Sessions |-> NoCall]
  /\ runs = {}
  /\ stores = {}

\* traversals of a store nobody writes, while datetime.utcnow() moves on
ClockNext ==
  \/ Tick
  \/ TraverseConcurrent
  \/ ExecuteBase
  \/ ExecuteRecursive
  \/ ExecuteNodes
  \/ Respond
  \/ Merge
  \/ Return

ClockSpec == ClockInit /\ [][ClockNext]_vars

-----------------------------------------------------------------------------

Done == pc = "done"
Returned == pc = "done" /\ response.status = "ok"

\* of the values a call may give, those it returns
Returning(R) == {r \in R : r.status = "ok"}

StoreNodeIds == {n.id : n \in nodes}
StoreEdge(i) == CHOOSE e \in edges : e.id = i
SoftDeleted == {n.id : n \in {m \in nodes : m.deleted_at # None}}

\* the instant a call is about: its as_of, or now when as_of is unset
Instant == IF req.as_of = None THEN clock ELSE req.as_of[1]

NoDuplicateIds(q) == \A i, j \in 1..Len(q) : q[i].id = q[j].id => i = j

\* a call on the current store returns what the stepwise execution returned
StepwiseAgrees ==
  Done => response \in TraverseGraph(nodes, edges, clock, req.node_id, req.direction,
                                      req.depth, req.as_of, req.edge_types,
                                      req.include_deleted)

-----------------------------------------------------------------------------
(* The breadth-first traversal of the specification, section 4.2, on the     *)
(* current store: the reference the properties compare the code with         *)

RefDirections == {"upstream", "downstream"}

RefQualifies(e, as_of, filter) ==
  /\ e.valid_from <= as_of
  /\ (e.valid_to = None \/ e.valid_to[1] > as_of)
  /\ (filter = None \/ filter[1] = {} \/ e.edge_type \in filter[1])

RefNear(e, direction) == IF direction = "downstream" THEN e.source_id ELSE e.target_id
RefFar(e, direction) == IF direction = "downstream" THEN e.target_id ELSE e.source_id

\* levels d..max_depth, given the frontier of depth d - 1
RECURSIVE RefExpand(_, _, _, _, _, _, _, _)
RefExpand(d, max_depth, frontier, visited_nodes, visited_edges, direction, as_of, filter) ==
  IF d > max_depth \/ frontier = {}
  THEN [nodes |-> visited_nodes, edges |-> visited_edges]
  ELSE LET hop == {e \in edges : /\ RefNear(e, direction) \in frontier
                                 /\ RefQualifies(e, as_of, filter)}
           next == {RefFar(e, direction) : e \in hop} \ visited_nodes
       IN RefExpand(d + 1, max_depth, next, visited_nodes \cup next,
                    visited_edges \cup {e.id : e \in hop}, direction, as_of, filter)

RefTraverse(seed, direction, max_depth, as_of, filter) ==
  RefExpand(1, max_depth, {seed}, {seed}, {}, direction, as_of, filter)

ChainStore ==
  /\ {e.id : e \in edges} = {1, 2, 3}
  /\ SoftDeleted = {}

\* the (source_id, target_id, edge_type) key of an edge
TripleOf(e) == <<e.source_id, e.target_id, e.edge_type>>

\* the edges of key tr with valid_to unset
ActiveEdges(tr) == {e \in edges : TripleOf(e) = tr /\ e.valid_to = None}

\* a create_edge call in progress in session s, with valid_to unset
Creating(s) ==
  /\ sessions[s].pc \in {"commit", "refresh", "raised"}
  /\ sessions[s].edge.valid_to = None

\* e1 was closed at the instant e2, of the same key and still open, begins
Reactivated(e1, e2) ==
  /\ TripleOf(e1) = TripleOf(e2)
  /\ e1.valid_from < e2.valid_from
  /\ e1.valid_to = Some(e2.valid_from)
  /\ e2.valid_to = None

\* the level at which the reference traversal first reaches node n
RefDepth(n, seed, direction, max_depth, as_of, filter) ==
  CHOOSE k \in 0..max_depth :
    /\ n \in RefTraverse(seed, direction, k, as_of, filter).nodes
    /\ \A j \in 0..(k - 1) : n \notin RefTraverse(seed, direction, j, as_of, filter).nodes

\* the depth levels at which node n has contributed edges to the expansion in
\* progress: level 0 for the seed of a non-empty base term, and level k when a
\* row of depth k for n has been joined with a row of depth k + 1
ExpandedAt(n) ==
  (IF n = req.node_id /\ \E r \in BagToSet(cte) : r.depth = 1 THEN {0} ELSE {})
  \cup {r.depth : r \in {x \in BagToSet(cte) :
          /\ x.node_id = n
          /\ \E y \in BagToSet(cte) :
               /\ y.depth = x.depth + 1
               /\ (IF cur = "upstream" THEN y.target_id ELSE y.source_id) = n}}

-----------------------------------------------------------------------------
(* C1: every edge a traversal returns is active at the traversal's instant:  *)
(* valid_from <= as_of and (valid_to unset or valid_to > as_of), at the      *)
(* first hop and at every later hop.                                         *)
C1_ReturnedEdgesActive ==
  Returned =>
    \A i \in Ids(response.edges) :
      /\ StoreEdge(i).valid_from <= Instant
      /\ (StoreEdge(i).valid_to = None \/ StoreEdge(i).valid_to[1] > Instant)

\* A -> B is returned and the closed self-loop on B, met at the second hop at
\* as_of = valid_to, is not
C1_Witness ==
  /\ Returned
  /\ req.node_id = "A" /\ req.direction = "downstream" /\ req.depth = 2
  /\ req.as_of = Some(2)
  /\ {1, 5} \subseteq {e.id : e \in edges}
  /\ 1 \in Ids(response.edges)
  /\ 5 \notin Ids(response.edges)

(* C2: the edge set of a single-direction traversal is the edge set of the   *)
(* reference breadth-first traversal; on the chain A -> B -> C -> D,         *)
(* downstream from A, depth 2 gives nodes {A, B, C} and edges {A->B, B->C},  *)
(* depth 1 gives {A, B} and {A->B}.                                          *)
C2_EdgesEqualReference ==
  (Returned /\ req.direction \in RefDirections) =>
    /\ Ids(response.edges) =
         RefTraverse(req.node_id, req.direction, req.depth, Instant, req.edge_types).edges
    /\ (ChainStore /\ req.node_id = "A" /\ req.direction = "downstream" /\ req.depth = 2)
         => /\ Ids(response.nodes) = {"A", "B", "C"}
            /\ Ids(response.edges) = {1, 2}
    /\ (ChainStore /\ req.node_id = "A" /\ req.direction = "downstream" /\ req.depth = 1)
         => /\ Ids(response.nodes) = {"A", "B"}
            /\ Ids(response.edges) = {1}

C2_Witness ==
  /\ Returned
  /\ ChainStore
  /\ req.node_id = "A" /\ req.direction = "downstream" /\ req.depth = 2
  /\ Ids(response.nodes) = {"A", "B", "C"}
  /\ Ids(response.edges) = {1, 2}

(* C3: every call terminates, on cyclic graphs and self-loops too, and for   *)
(* max_depth in 1..10 the recursive expansion produces no row deeper than    *)
(* max_depth.                                                                *)
C3_Terminates ==
  /\ [](DepthField(req.depth) => \A r \in BagToSet(cte) : r.depth <= req.depth)
  /\ (pc \notin {"idle", "done"}) ~> Done

\* a call of depth 2 from B has walked the self-loop on B twice and returned
C3_Witness ==
  /\ Returned
  /\ req.node_id = "B" /\ req.depth = 2
  /\ \E r \in BagToSet(cte) : r.edge_id = 5 /\ r.node_id = "B" /\ r.depth = 2

(* C4, as stated: the seed node is in the nodes of every traversal result,   *)
(* with depth 0, for every include_deleted value.  Stated here of the seeds  *)
(* that name a node of the store; a seed that names none is the case of C5.  *)
C4_SeedAlwaysPresent ==
  (Returned /\ req.node_id \in StoreNodeIds) =>
    \E i \in 1..Len(response.nodes) :
      response.nodes[i].id = req.node_id /\ response.nodes[i].depth = 0

(* C4, amended: the seed node is in the nodes of a traversal result, with    *)
(* depth 0, exactly when it is a node of the store that is not soft-deleted  *)
(* or include_deleted is set; it is then present even with no qualifying     *)
(* incident edge.                                                            *)
C4_SeedPresentIffVisible ==
  Returned =>
    ( (\E i \in 1..Len(response.nodes) :
         response.nodes[i].id = req.node_id /\ response.nodes[i].depth = 0)
      <=> /\ req.node_id \in StoreNodeIds
          /\ (req.include_deleted \/ req.node_id \notin SoftDeleted) )

\* a seed with no qualifying edge is the only node returned
C4_Witness ==
  /\ Returned
  /\ req.node_id \in StoreNodeIds \ SoftDeleted
  /\ response.edges = <<>>
  /\ Ids(response.nodes) = {req.node_id}
  /\ response.nodes[1].depth = 0

(* C5: a traversal whose seed id names no node of the store fails with       *)
(* NotFound instead of returning a result.                                   *)
C5_MissingSeedNotFound ==
  (Done /\ ValidArgs(req.direction, req.depth) /\ req.node_id \notin StoreNodeIds)
    => response.status = "NotFound"

(* C6: a traversal called with max_depth <= 0 or max_depth > 10 fails with   *)
(* InvalidArgument before any statement is executed on the store, for any    *)
(* direction.                                                                *)
C6_InvalidDepthFailsFast ==
  (/\ pc # "idle"
   /\ req.direction \in {"upstream", "downstream", "both"}
   /\ ~(req.depth >= 1 /\ req.depth <= 10)) =>
    /\ reads = 0
    /\ Done => response.status = "ValidationError"

(* C7: a traversal called with a direction other than upstream, downstream   *)
(* or both fails with InvalidArgument before any store access and is never   *)
(* executed as one of the three valid directions.                            *)
C7_InvalidDirectionFailsFast ==
  (/\ pc # "idle"
   /\ req.direction \notin {"upstream", "downstream", "both"}
   /\ req.depth >= 1 /\ req.depth <= 10) =>
    /\ reads = 0
    /\ Done => response.status = "ValidationError"

(* C8: with an explicit as_of, the node ids and edge ids returned for        *)
(* direction both are the unions of those the upstream and the downstream    *)
(* traversal return when run on their own with the same arguments.           *)
C8_BothIsUnion ==
  (Returned /\ req.direction = "both" /\ req.as_of # None) =>
    \A up \in Returning(GetUpstream(nodes, edges, clock, req.node_id, req.depth,
                                     req.as_of, req.edge_types, req.include_deleted)) :
      \A down \in Returning(GetDownstream(nodes, edges, clock, req.node_id, req.depth,
                                           req.as_of, req.edge_types,
                                           req.include_deleted)) :
        /\ Ids(response.nodes) = Ids(up.nodes) \cup Ids(down.nodes)
        /\ Ids(response.edges) = Ids(up.edges) \cup Ids(down.edges)

\* from B: A -> B only upstream, B -> C only downstream, the self-loop in both
C8_Witness ==
  /\ Returned
  /\ req.direction = "both" /\ req.node_id = "B" /\ req.as_of = Some(1)
  /\ Ids(response.edges) = {1, 2, 5}
  /\ Ids(upstream.edges) = {1, 5}
  /\ Ids(downstream.edges) = {2, 5}

(* C9: no node id and no edge id occurs twice in a result, and node_count    *)
(* and edge_count are the numbers of distinct ids (for both: after merge).   *)
C9_NoDuplicatesAndCounts ==
  Returned =>
    /\ NoDuplicateIds(response.nodes)
    /\ NoDuplicateIds(response.edges)
    /\ response.node_count = Cardinality(Ids(response.nodes))
    /\ response.edge_count = Cardinality(Ids(response.edges))

\* both halves found the same edge and the same two nodes; they are counted once
C9_Witness ==
  /\ Returned
  /\ req.direction = "both"
  /\ Ids(upstream.edges) \cap Ids(downstream.edges) # {}
  /\ Cardinality(Ids(upstream.nodes) \cap Ids(downstream.nodes)) >= 2
  /\ response.node_count < Len(upstream.nodes) + Len(downstream.nodes)
  /\ response.edge_count < Len(upstream.edges) + Len(downstream.edges)

(* C10: with include_deleted unset no soft-deleted node is in the nodes of a *)
(* result, and the edges returned are those returned with the other value of *)
(* include_deleted: an edge stays when its endpoints are soft-deleted.       *)
C10_DeletedNodesHiddenEdgesKept ==
  Returned =>
    /\ ~req.include_deleted => Ids(response.nodes) \cap SoftDeleted = {}
    /\ \A other \in Returning(TraverseGraph(nodes, edges, clock, req.node_id,
                                             req.direction, req.depth, req.as_of,
                                             req.edge_types, ~req.include_deleted)) :
         Ids(response.edges) = Ids(other.edges)

\* the self-loop on soft-deleted B and A -> B are returned, B is not
C10_Witness ==
  /\ Returned
  /\ ~req.include_deleted
  /\ "B" \in SoftDeleted
  /\ {1, 5} \subseteq Ids(response.edges)
  /\ "B" \notin Ids(response.nodes)
  /\ "A" \in Ids(response.nodes)

(* C11: with an edge-type filter given, every returned edge has a type of    *)
(* the filter and every hop uses only such edges: the result is the result   *)
(* of the unfiltered traversal of the store without the other edges, so a    *)
(* node behind a filtered-out edge is not reached at hop 1 or deeper.        *)
C11_FilterAtEveryHop ==
  (Returned /\ req.edge_types # None /\ req.edge_types[1] # {}) =>
    /\ \A i \in Ids(response.edges) : StoreEdge(i).edge_type \in req.edge_types[1]
    /\ LET kept == {e \in edges : e.edge_type \in req.edge_types[1]}
       IN \A plain \in Returning(TraverseGraph(nodes, kept, clock, req.node_id,
                                               req.direction, req.depth, req.as_of,
                                               None, req.include_deleted)) :
            /\ Ids(response.nodes) = Ids(plain.nodes)
            /\ Ids(response.edges) = Ids(plain.edges)

\* from B with filter {read}: B -> C is followed, the write edge C -> A met at
\* the second hop is not, and A, reachable through it only, is not returned
C11_Witness ==
  /\ Returned
  /\ req.node_id = "B" /\ req.direction = "downstream" /\ req.depth = 2
  /\ req.edge_types = Some({"read"})
  /\ req.as_of = None
  /\ {e.id : e \in edges} = {2, 4}
  /\ Ids(response.edges) = {2}
  /\ "C" \in Ids(response.nodes)
  /\ "A" \notin Ids(response.nodes)

(* C12: every edge E the downstream traversal from A returns (the last edge  *)
(* of a qualifying path of length <= d from A to E's target B) is returned   *)
(* by the upstream traversal from B with the same d, as_of and filter, and   *)
(* that traversal reaches A: A is the source of one of its edges, and is in  *)
(* its nodes whenever A is in the nodes of the downstream result.            *)
C12_DirectionSymmetry ==
  (Returned /\ req.direction = "downstream") =>
    \A i \in 1..Len(response.edges) :
      \A up \in Returning(GetUpstream(nodes, edges, clock, response.edges[i].target_id,
                                       req.depth, req.as_of, req.edge_types,
                                       req.include_deleted)) :
        /\ response.edges[i].id \in Ids(up.edges)
        /\ \E j \in 1..Len(up.edges) : up.edges[j].source_id = req.node_id
        /\ req.node_id \in Ids(response.nodes) => req.node_id \in Ids(up.nodes)

\* downstream from A reaches C by A -> B -> C; upstream from C returns B -> C
\* and reaches A at its second hop
C12_Witness ==
  /\ Returned
  /\ req.node_id = "A" /\ req.direction = "downstream" /\ req.depth = 2
  /\ {e.id : e \in edges} = {1, 2}
  /\ Ids(response.edges) = {1, 2}
  /\ \A up \in Returning(GetUpstream(nodes, edges, clock, "C", req.depth, req.as_of,
                                      req.edge_types, req.include_deleted)) :
       /\ Ids(up.edges) = {1, 2}
       /\ "A" \in Ids(up.nodes)

(* C13: the same traversal (same seed, direction, depth, filter,             *)
(* include_deleted and explicit as_of) run twice with no store write in      *)
(* between returns the same node-id set and the same edge-id set, whatever   *)
(* the clock shows at either run.                                            *)
C13_Idempotent ==
  (Returned /\ req.as_of # None /\ previous.req = req) =>
    /\ Ids(response.nodes) = previous.node_ids
    /\ Ids(response.edges) = previous.edge_ids

\* the second of two runs for an as_of in the past has returned an edge that
\* has since reached its valid_to
C13_Witness ==
  /\ Returned
  /\ req.as_of # None /\ previous.req = req
  /\ previous.edge_ids # {}
  /\ Ids(response.edges) = previous.edge_ids
  /\ \E e \in edges : /\ e.id \in previous.edge_ids
                       /\ e.valid_to # None /\ e.valid_to[1] <= clock

(* C14: the depth reported for each node of a single-direction result is the *)
(* length of the shortest qualifying path from the seed to it: 0 for the     *)
(* seed, k >= 1 for a node first reached at hop k.                           *)
C14_DepthIsShortestPath ==
  (Returned /\ req.direction \in RefDirections) =>
    \A i \in 1..Len(response.nodes) :
      response.nodes[i].depth =
        RefDepth(response.nodes[i].id, req.node_id, req.direction, req.depth,
                 Instant, req.edge_types)

C17_ReactivationExactlyOne ==
  (Returned /\ req.direction = "downstream") =>
    \A e1, e2 \in edges :
      (/\ Reactivated(e1, e2)
       /\ e1.source_id = req.node_id
       /\ timestamp >= e1.valid_from) =>
        Ids(response.edges) \cap {e1.id, e2.id} =
          IF timestamp < e2.valid_from THEN {e1.id} ELSE {e2.id}

\* as_of exactly at the instant of the reactivation: the second instance
C17_Witness ==
  /\ Returned
  /\ req.node_id = "A" /\ req.direction = "downstream"
  /\ \E e1, e2 \in edges :
       /\ Reactivated(e1, e2)
       /\ e1.source_id = "A"
       /\ req.as_of = Some(e2.valid_from)
       /\ Ids(response.edges) = {e2.id}

(* C18: for a fixed as_of the edge set a traversal returns does not depend   *)
(* on when it runs: no write performed after clock time as_of that inserts   *)
(* no edge (in particular no invalidate_edge, on an open or on a closed      *)
(* edge) changes the edge set returned for that as_of.  Stated here of the   *)
(* writes that stamp a time after as_of; a valid_to at or before as_of,      *)
(* passed by the caller or read from the clock before the commit, is put     *)
(* aside.                                                                    *)
C18_AsOfReproducible ==
  [][\A t \in 0..MaxClock :
       (/\ clock > t
        /\ {e.id : e \in edges'} = {e.id : e \in edges}
        /\ \A f \in edges' \ edges : f.valid_to # None /\ f.valid_to[1] > t) =>
         \A seed \in {"A", "B"} :
           \A after \in Returning(GetDownstream(nodes, edges', clock', seed, 2,
                                                Some(t), None, FALSE)) :
             \A before \in Returning(GetDownstream(nodes, edges, clock, seed, 2,
                                                   Some(t), None, FALSE)) :
               Ids(after.edges) = Ids(before.edges)
    ]_vars

(* C19: during a single-direction traversal no node is expanded more than    *)
(* once: each node contributes its incident qualifying edges to the          *)
(* expansion at one depth level only, whatever paths reach it.               *)
C19_NoNodeExpandedTwice ==
  (req.direction \in RefDirections /\ DepthField(req.depth)) =>
    \A n \in NodeIds : Cardinality(ExpandedAt(n)) <= 1

(* C20: edges are append-only: an existing edge's source_id, target_id,      *)
(* edge_type and valid_from never change, and its valid_to changes at most   *)
(* once, from unset to a timestamp; invalidate_edge on an edge whose         *)
(* valid_to is set leaves it unchanged.                                      *)
C20_EdgesAppendOnly ==
  [][\A e \in edges :
       \E f \in edges' :
         /\ f.id = e.id
         /\ f.source_id = e.source_id /\ f.target_id = e.target_id
         /\ f.edge_type = e.edge_type /\ f.valid_from = e.valid_from
         /\ e.valid_to # None => f.valid_to = e.valid_to
    ]_vars

(* C28: soft deletion of a node does not cut a traversal: with               *)
(* include_deleted unset the edges returned are those of the breadth-first   *)
(* traversal that ignores deleted_at, and the nodes returned are the stored  *)
(* nodes that traversal reaches, less the soft-deleted ones; a node reached  *)
(* only through a soft-deleted node is returned with the edges of the path.  *)
C28_DeletionDoesNotCut ==
  (Returned /\ ~req.include_deleted /\ req.direction \in RefDirections) =>
    LET ref == RefTraverse(req.node_id, req.direction, req.depth, Instant,
                           req.edge_types)
    IN /\ Ids(response.edges) = ref.edges
       /\ Ids(response.nodes) = (ref.nodes \cap StoreNodeIds) \ SoftDeleted

\* downstream of A at depth 2 with B soft-deleted and A -> B -> C the only
\* path to C: C and both edges are returned, B is not
C28_Witness ==
  /\ Returned
  /\ ~req.include_deleted
  /\ req.node_id = "A" /\ req.direction = "downstream" /\ req.depth = 2
  /\ SoftDeleted = {"B"}
  /\ {e.id : e \in edges} = {1, 2}
  /\ Ids(response.nodes) = {"A", "C"}
  /\ Ids(response.edges) = {1, 2}

(* C29: a traversal with an empty edge_types list returns what the traversal *)
(* with edge_types unset returns, and with a non-empty list the edges        *)
(* returned are among those returned with edge_types unset.                  *)
C29_EmptyFilterIsNoFilter ==
  Returned =>
    LET plain == TraverseGraph(nodes, edges, clock, req.node_id, req.direction,
                               req.depth, req.as_of, None, req.include_deleted)
    IN /\ req.edge_types = Some({}) => response \in plain
       /\ req.edge_types # None =>
            \A r \in Returning(plain) : Ids(response.edges) \subseteq Ids(r.edges)

\* an empty list was given and edges of two types are returned
C29_Witness ==
  /\ Returned
  /\ req.edge_types = Some({})
  /\ \E i, j \in Ids(response.edges) :
       StoreEdge(i).edge_type = "read" /\ StoreEdge(j).edge_type = "write"

(* C27: after any sequence of create_edge and invalidate_edge calls, for     *)
(* every instant and every (source_id, target_id, edge_type) key at most     *)
(* one stored edge of that key satisfies the temporal predicate: validity    *)
(* intervals of edges of one key never overlap.                              *)
C27_IntervalsNeverOverlap ==
  \A t \in 0..(MaxClock + 1) : \A tr \in Triples :
    Cardinality({e \in edges : TripleOf(e) = tr /\ TemporalFilter(e, t)}) <= 1

\* the stored node with the given id is soft-deleted
DeletedNode(N, id) == \E n \in N : n.id = id /\ n.deleted_at # None

\* the step begins and ends a call op of the client made on a soft-deleted node
RefusedCall(op) ==
  /\ sessions[Client].pc = "idle"
  /\ calls'[Client] # calls[Client]
  /\ calls'[Client].op = op
  /\ DeletedNode(nodes, calls'[Client].args.node_id)

(* C25: soft_delete_node never removes a node. Once it has returned True the *)
(* node is stored with deleted_at set, get_node by id returns it with        *)
(* include_deleted=True and returns None by default; no step removes a node  *)
(* or changes a set deleted_at; and soft_delete_node or update_node called   *)
(* on a soft-deleted node returns False or None and leaves the store as is.  *)
C25_SoftDeleteKeepsNode ==
  [][/\ \A n \in nodes : \E m \in nodes' :
          /\ m.id = n.id
          /\ n.deleted_at # None => m.deleted_at = n.deleted_at
     /\ (/\ calls'[Client].op = "soft_delete_node"
         /\ calls'[Client].outcome = "return"
         /\ calls'[Client].value) =>
          LET id == calls'[Client].args.node_id
          IN /\ DeletedNode(nodes', id)
             /\ GetNodeAs("get_node", <<>>, nodes', Some(id), None, TRUE).value
                  = Some(CHOOSE n \in nodes' : n.id = id)
             /\ GetNodeAs("get_node", <<>>, nodes', Some(id), None, FALSE).value = None
     /\ RefusedCall("soft_delete_node") =>
          /\ calls'[Client].outcome = "return" /\ calls'[Client].value = FALSE
          /\ nodes' = nodes
     /\ RefusedCall("update_node") =>
          /\ calls'[Client].outcome = "return" /\ calls'[Client].value = None
          /\ nodes' = nodes
    ]_vars

\* a second soft_delete_node of A has returned False; A is stored with the
\* deleted_at the first call gave it
C25_Witness ==
  /\ calls[Client].op = "soft_delete_node"
  /\ calls[Client].args.node_id = "A"
  /\ calls[Client].outcome = "return"
  /\ ~calls[Client].value
  /\ clock = 2
  /\ \E n \in nodes : n.id = "A" /\ n.deleted_at = Some(1)

(* C30: in every store state reached by create_node and soft_delete_node,    *)
(* get_node by qualified_name returns one node or None and does not raise,   *)
(* with include_deleted false and true.                                      *)
C30_LookupByNameNeverFails ==
  (/\ calls[Client].op = "get_node"
   /\ calls[Client].args.node_id = None
   /\ calls[Client].args.qualified_name # None) =>
     calls[Client].outcome = "return"

(* C24: success and failed are terminal statuses of a run: once a stored     *)
(* run has status success or failed, no step of create_run or update_run     *)
(* changes the status of that run.                                           *)
C24_TerminalStatusKept ==
  [][\A r \in runs :
       r.status \in {"success", "failed"} =>
         \E q \in runs' : q.run_id = r.run_id /\ q.status = r.status
    ]_vars

(* C26: node visibility in a traversal with as_of given follows deleted_at   *)
(* as a point in time: with include_deleted unset, a node the traversal      *)
(* reaches that was soft-deleted at a time later than as_of is returned.     *)
C26_DeletedLaterStillVisible ==
  (Returned /\ ~req.include_deleted /\ req.as_of # None) =>
    \A n \in nodes :
      (/\ n.id \in NodeIdsOf(req.node_id, response.edges)
       /\ n.deleted_at # None
       /\ req.as_of[1] < n.deleted_at[1]) => n.id \in Ids(response.nodes)

(* C23: in a both traversal with as_of unset the two halves are evaluated at *)
(* one instant: the instant of the downstream half is that of the upstream   *)
(* half, and an edge stored throughout is active for both or for neither.    *)
C23_HalvesShareOneInstant ==
  [][(/\ pc = "respond" /\ pc' = "base"
      /\ req.direction = "both" /\ req.as_of = None) =>
       /\ timestamp' = timestamp
       /\ \A e \in edges : TemporalFilter(e, timestamp') <=> TemporalFilter(e, timestamp)
    ]_vars

(* C21: a traversal leaves the store unchanged, whether it completes or is   *)
(* aborted part-way: no step of the traversal, its abort included, creates,  *)
(* modifies or removes a node, an edge or a run record.                      *)
C21_TraversalLeavesStore ==
  [][traversal' # traversal => UNCHANGED <<nodes, edges, runs>>]_vars

\* a traversal was aborted after it had read edges another caller had written
\* while it ran; the written edge is stored
C21_Witness ==
  /\ pc = "done"
  /\ response.status = "CancelledError"
  /\ reads >= 1
  /\ Cardinality(stores) >= 2
  /\ \E e \in edges : e.source_id = req.node_id

(* C22: with writes of another caller interleaved, a traversal called with   *)
(* as_of given returns what the traversal with the same parameters returns   *)
(* on one of the store states that existed while it ran.                     *)
C22_ResultOfOneStoreState ==
  (Returned /\ req.as_of # None) =>
    \E S \in stores :
      \E atomic \in Returning(TraverseGraph(S[1], S[2], clock, req.node_id,
                                            req.direction, req.depth, req.as_of,
                                            req.edge_types, req.include_deleted)) :
        /\ Ids(response.nodes) = Ids(atomic.nodes)
        /\ Ids(response.edges) = Ids(atomic.edges)

====
